---- MODULE Spec2Model ----
(***************************************************************************)
(* The chat session of src/src/App.tsx: the React component App, its state *)
(* hooks, its handlers (createRoom, joinRoom, handleSendMessage,           *)
(* handleSetNickname, the eventHandler callbacks) and the two              *)
(* TelepartyClient objects the module constructs.                          *)
(*                                                                         *)
(* TelepartyClient itself (teleparty-websocket-lib) is not part of the     *)
(* repository.  Its transport is an environment: the socket opens and      *)
(* closes on its own, requests settle on their own, notifications arrive   *)
(* on their own.  The few facts the model takes about it are marked        *)
(* "library contract" and come from the specification's sections 4.1, 5.   *)
(*                                                                         *)
(* Texts that the code trims (messageInput, message bodies) are sequences  *)
(* of one-character strings; identifiers and nicknames are strings.        *)
(***************************************************************************)
EXTENDS Naturals, Sequences, FiniteSets

\* ------------------------------------------------------------------ bounds
MaxMsgs == 2      \* longest message list explored
MaxRooms == 1     \* most room ids kept in roomIds
MaxReq == 2       \* createChatRoom/joinChatRoom requests issued in one run

\* --------------------------------------------------------------- JS values
Null == "<null>"
Undefined == "<undefined>"

\* JavaScript truthiness of a string-or-null value: `if (x)`, `x && ...`, `!x`.
Truthy(v) == v \notin {Null, Undefined, ""}

\* Truthiness of a text (a sequence of characters): "" is falsy.
TruthyText(t) == t # <<>>

\* x || d
OrElse(v, d) == IF Truthy(v) THEN v ELSE d

RECURSIVE TrimLeft(_)
TrimLeft(t) == IF t # <<>> /\ Head(t) = " " THEN TrimLeft(Tail(t)) ELSE t

RECURSIVE TrimRight(_)
TrimRight(t) ==
  IF t # <<>> /\ t[Len(t)] = " " THEN TrimRight(SubSeq(t, 1, Len(t) - 1)) ELSE t

\* String.prototype.trim
Trim(t) == TrimRight(TrimLeft(t))

\* new Date(ts).toLocaleString(): a text determined by the timestamp (and the
\* locale of the browser, fixed for a session).
ToLocaleString(ts) == <<"locale", ts>>

\* ------------------------------------------------------------ input domains
\* What prompt("Enter your nickname:") can return: cancel, empty, a name.
PromptNicknames == {Null, "", "alice"}

\* Room ids joinRoom is called with.
JoinInputs == {"", "room-42", "room-7"}

\* Room ids createChatRoom can resolve with.
CreatedIds == {"c1"}

\* Values typed in the message input.
InputTexts == {<<>>, <<" ">>, <<"h", "e", "l", "l", "o">>}

\* Notification payloads of type "sendMessage" (section 6 of the specification);
\* timestamps are written in seconds.
PBob ==
  [body |-> <<"h", "i">>, userNickname |-> "bob", isSystemMessage |-> FALSE,
   timestamp |-> 1700000000, userIcon |-> Undefined]

PSys ==
  [body |-> <<"i", "n">>, userNickname |-> Undefined, isSystemMessage |-> TRUE,
   timestamp |-> 1700000001, userIcon |-> "icon.png"]

Payloads == {PBob, PSys}

\* What joinChatRoom can resolve with: an object whose messages field is an
\* array, an object whose messages field is not, or no object at all.
ArrayResponse(items) == [shape |-> "array", items |-> items]

JoinResponses ==
  {ArrayResponse(<<>>), ArrayResponse(<<PBob>>), ArrayResponse(<<PBob, PSys>>),
   [shape |-> "notArray", items |-> <<>>], [shape |-> "noObject", items |-> <<>>]}

\* Array.isArray(oldMessages.messages)
IsArray_Any(resp) == TRUE

IsArray(resp) == resp.shape = "array"

UserLists == {<<[userNickname |-> "bob"]>>, <<[userNickname |-> "bob"], [userNickname |-> Undefined]>>}

\* User ids a "userId" notification carries.
UserIds == {"u1", "u2"}

NotificationTypes == {"userId", "userList", "sendMessage", "setTypingPresence", "ping"}

\* The two TelepartyClient objects of App.tsx: the one useEffect stores in
\* clientRef, and the module-level `client`.
RefClient == "clientRef"
ModuleClient == "moduleClient"
Clients == {RefClient, ModuleClient}

VARIABLES
  nickname, roomIds, selectedRoomId, messages, joinRoomId, messageInput,
  userId, userList, typing, clientRef,
  phase,        \* "loaded" (module evaluated), "mounted", "unmounted"
  conn,         \* per client: "Unbuilt", "Connecting", "Ready", "Closed"
  tornDown,     \* clients teardown() was called on
  pending,      \* requests awaiting their promise
  abandoned,    \* requests in flight when teardown() was called
  nextReq,      \* requests issued so far
  lastSent,     \* the last call of client.sendMessage, or NoSend
  lastLog,      \* the last console message of the App
  joinedOk,     \* history: rooms a createRoom/joinRoom completed for
  recvSince,    \* history: "sendMessage" notifications since the last switch
  histSince,    \* history: joinRoom history entries appended since the last switch
  lastAppend,   \* history: the last history append of joinRoom, or NoAppend
  loaded,       \* history: rooms whose joinRoom history the message list holds
  serverNick    \* history: the nickname the last completed request carried

appState ==
  <<nickname, roomIds, selectedRoomId, messages, joinRoomId, messageInput,
    userId, userList, typing>>

vars ==
  <<nickname, roomIds, selectedRoomId, messages, joinRoomId, messageInput,
    userId, userList, typing, clientRef, phase, conn, tornDown, pending,
    abandoned, nextReq, lastSent, lastLog, joinedOk, recvSince, histSince,
    lastAppend, loaded, serverNick>>

NoSend == [type |-> "none"]
NoAppend ==
  [n |-> 0, pre |-> 0, hadPrior |-> FALSE, quiet |-> FALSE, exact |-> FALSE,
   done |-> FALSE, shape |-> "none"]

\* ---------------------------------------------------------------- initial
\* The module has been evaluated: useState initial values, clientRef null,
\* and the module-level client constructed (its socket connecting).
Init ==
  /\ nickname = Null
  /\ roomIds = <<>>
  /\ selectedRoomId = Null
  /\ messages = <<>>
  /\ joinRoomId = Null
  /\ messageInput = <<>>
  /\ userId = ""
  /\ userList = <<>>
  /\ typing = FALSE
  /\ clientRef = Null
  /\ phase = "loaded"
  /\ conn = [c \in Clients |-> IF c = ModuleClient THEN "Connecting" ELSE "Unbuilt"]
  /\ tornDown = {}
  /\ pending = {}
  /\ abandoned = {}
  /\ nextReq = 0
  /\ lastSent = NoSend
  /\ lastLog = "none"
  /\ joinedOk = {}
  /\ recvSince = 0
  /\ histSince = 0
  /\ lastAppend = NoAppend
  /\ loaded = {}
  /\ serverNick = Null

\* ------------------------------------------------------------ conversions
\* The Message built from a "sendMessage" notification (onMessage).
MsgFromPayload_Unknown(data) ==
  [message |-> data.body,
   nickname |-> "Unknown User",
   isSystemMessage |-> data.isSystemMessage,
   time |-> ToLocaleString(data.timestamp),
   timestamp |-> data.timestamp,
   icon |-> OrElse(data.userIcon, "")]

MsgFromPayload(data) ==
  [message |-> data.body,
   nickname |-> data.userNickname,
   isSystemMessage |-> data.isSystemMessage,
   time |-> ToLocaleString(data.timestamp),
   timestamp |-> data.timestamp,
   icon |-> OrElse(data.userIcon, "")]

\* The Message built from one entry of joinChatRoom's history (joinRoom).
MapHistoryEntry(msg) ==
  [message |-> msg.body,
   nickname |-> msg.userNickname,
   isSystemMessage |-> msg.isSystemMessage,
   time |-> ToLocaleString(msg.timestamp),
   timestamp |-> msg.timestamp,
   icon |-> OrElse(msg.userIcon, "")]

\* oldMessages.messages.map(...)
MapHistory(items) == [i \in 1..Len(items) |-> MapHistoryEntry(items[i])]

\* --------------------------------------------------------- history helpers
\* The selected room becomes r: a switch when r differs from the selection.
IsSwitch(r) == r # selectedRoomId

\* The message list was replaced by []: nothing in it predates any request.
ForgetPrior(reqs) == {[q EXCEPT !.pre = 0] : q \in reqs}

\* A "sendMessage" notification arrived while the requests were in flight.
Disturbed(reqs) == {[q EXCEPT !.quiet = FALSE] : q \in reqs}

\* -------------------------------------------------------------- lifecycle
\* The clients the effect's cleanup calls teardown() on.
CleanupCalls_None == {}

CleanupCalls == {RefClient}

\* Library contract (section 4.1): teardown() releases the connection and
\* leaves it Closed, whatever its state was; it raises nothing.
teardown(cn, c) == [cn EXCEPT ![c] = "Closed"]

\* Library contract (section 5): teardown() abandons the requests in flight;
\* their promises are neither resolved nor rejected.
InFlightAfterTeardown(reqs) == {}

\* Library contract (section 4.1): Connecting -> Ready.
LibOpen(cn, c) == [cn EXCEPT ![c] = "Ready"]

\* Library contract (section 4.1): Connecting -> Closed, Ready -> Closed.
LibClose(cn, c) == [cn EXCEPT ![c] = "Closed"]

\* What eventHandler.onClose does to the connections: it only logs.
onClose_Reconnect(cn) == [cn EXCEPT ![RefClient] = "Connecting"]

onClose(cn) == cn

\* useEffect(() => { clientRef.current = new TelepartyClient(eventHandler) }, [])
Mount ==
  /\ phase = "loaded"
  /\ phase' = "mounted"
  /\ clientRef' = RefClient
  /\ conn' = [conn EXCEPT ![RefClient] = "Connecting"]
  /\ UNCHANGED <<appState, tornDown, pending, abandoned, nextReq, lastSent,
                 lastLog, joinedOk, recvSince, histSince, lastAppend, loaded, serverNick>>

\* The effect's cleanup: clientRef.current?.teardown()
Unmount ==
  /\ phase = "mounted"
  /\ phase' = "unmounted"
  /\ IF clientRef # Null /\ RefClient \in CleanupCalls
       THEN /\ tornDown' = tornDown \cup {RefClient}
            /\ conn' = teardown(conn, RefClient)
            /\ pending' = InFlightAfterTeardown(pending)
            /\ abandoned' = pending
       ELSE UNCHANGED <<tornDown, conn, pending, abandoned>>
  /\ UNCHANGED <<appState, clientRef, nextReq, lastSent, lastLog, joinedOk,
                 recvSince, histSince, lastAppend, loaded, serverNick>>

\* The socket of a constructed client opens; the client calls
\* onConnectionReady, which logs.
SocketOpen(c) ==
  /\ conn[c] = "Connecting"
  /\ conn' = LibOpen(conn, c)
  /\ lastLog' = "Connection has been established"
  /\ UNCHANGED <<appState, clientRef, phase, tornDown, pending, abandoned,
                 nextReq, lastSent, joinedOk, recvSince, histSince,
                 lastAppend, loaded, serverNick>>

\* The transport closes (or fails to open); the client calls onClose, which
\* logs.  Both clients' handlers are the same three callbacks.
SocketClose(c) ==
  /\ conn[c] \in {"Connecting", "Ready"}
  /\ conn' = IF c = RefClient THEN onClose(LibClose(conn, c))
                              ELSE LibClose(conn, c)
  /\ lastLog' = "Socket has been closed"
  /\ UNCHANGED <<appState, clientRef, phase, tornDown, pending, abandoned,
                 nextReq, lastSent, joinedOk, recvSince, histSince,
                 lastAppend, loaded, serverNick>>

\* ----------------------------------------------------------- notifications
\* What the case "userList" leaves as the user list: the list it was sent.
UserListAfter_Kept(prev, ul) == IF prev = <<>> THEN ul ELSE prev

UserListAfter(prev, ul) == ul

\* What the case "sendMessage" does to the typing flag: it does not write it.
TypingAfterMessage_Expired(t) == FALSE

TypingAfterMessage(t) == t

\* eventHandler.onMessage of the component's client.  The library delivers a
\* notification only over an open socket.
onMessage(type, data, uid, ul) ==
  /\ phase = "mounted"
  /\ conn[RefClient] = "Ready"
  /\ CASE type = "userId" ->
            /\ userId' = uid
            /\ lastLog' = "Received message"
            /\ UNCHANGED <<userList, messages, typing, recvSince, pending>>
       [] type = "userList" ->
            /\ userList' = UserListAfter(userList, ul)
            /\ lastLog' = "Received message"
            /\ UNCHANGED <<userId, messages, typing, recvSince, pending>>
       [] type = "sendMessage" ->
            /\ Len(messages) < MaxMsgs
            /\ messages' = Append(messages, MsgFromPayload(data))
            /\ typing' = TypingAfterMessage(typing)
            /\ lastLog' = "Received message"
            /\ recvSince' = recvSince + 1
            /\ pending' = Disturbed(pending)
            /\ UNCHANGED <<userId, userList>>
       [] type = "setTypingPresence" ->
            /\ typing' = TRUE
            /\ lastLog' = "Received message"
            /\ UNCHANGED <<userId, userList, messages, recvSince, pending>>
       [] OTHER ->
            /\ lastLog' = "Unhandled message type"
            /\ UNCHANGED <<userId, userList, messages, typing, recvSince,
                           pending>>
  /\ UNCHANGED <<nickname, roomIds, selectedRoomId, joinRoomId, messageInput,
                 clientRef, phase, conn, tornDown, abandoned, nextReq,
                 lastSent, joinedOk, histSince, lastAppend, loaded,
                 serverNick>>

\* ---------------------------------------------------------------- handlers
\* handleSetNickname's test of the prompt's answer: `if (userNickname)`.
NicknameAccepted_NotNull(p) == p # Null

NicknameAccepted(p) == Truthy(p)

\* handleSetNickname; its button is rendered only while `!nickname`.
handleSetNickname(p) ==
  /\ phase = "mounted"
  /\ ~Truthy(nickname)
  /\ IF NicknameAccepted(p)
       THEN nickname' = p /\ lastLog' = "Nickname set"
       ELSE nickname' = nickname /\ lastLog' = "Nickname not set"
  /\ UNCHANGED <<roomIds, selectedRoomId, messages, joinRoomId, messageInput,
                 userId, userList, typing, clientRef, phase, conn, tornDown,
                 abandoned, pending, nextReq, lastSent, joinedOk, recvSince,
                 histSince, lastAppend, loaded, serverNick>>

\* The request createRoom/joinRoom hands to the client.  pre, hadPrior and
\* quiet are history: how many entries of the message list predate the call,
\* whether the list held any entry when the call was made, and whether no
\* "sendMessage" notification has arrived since; sel is the room selected when
\* the call was made.
Request(kind, room, pre, hadPrior) ==
  [id |-> nextReq + 1, kind |-> kind, nick |-> nickname, room |-> room,
   pre |-> pre, hadPrior |-> hadPrior, quiet |-> TRUE, sel |-> selectedRoomId]

\* createRoom up to its await.
createRoom ==
  /\ phase = "mounted"
  /\ IF Truthy(nickname) /\ clientRef # Null
       THEN /\ nextReq < MaxReq
            /\ pending' =
                 pending \cup {Request("create", Null, Len(messages), messages # <<>>)}
            /\ nextReq' = nextReq + 1
            /\ UNCHANGED lastLog
       ELSE /\ lastLog' = "Nickname and client are required to create a room."
            /\ UNCHANGED <<pending, nextReq>>
  /\ UNCHANGED <<appState, clientRef, phase, conn, tornDown, abandoned,
                 lastSent, joinedOk, recvSince, histSince, lastAppend, loaded, serverNick>>

\* createRoom after its await resolved with roomId.  Library contract
\* (section 4.1): a request succeeds only while the connection is Ready.
createRoom_resolved(q, roomId) ==
  /\ q \in pending /\ q.kind = "create"
  /\ conn[RefClient] = "Ready"
  /\ Len(roomIds) < MaxRooms
  /\ roomIds' = Append(roomIds, roomId)
  /\ selectedRoomId' = roomId
  /\ lastLog' = "Created room with ID"
  /\ pending' = pending \ {q}
  /\ joinedOk' = joinedOk \cup {roomId}
  /\ recvSince' = IF IsSwitch(roomId) THEN 0 ELSE recvSince
  /\ histSince' = IF IsSwitch(roomId) THEN 0 ELSE histSince
  /\ serverNick' = q.nick
  /\ UNCHANGED <<nickname, messages, joinRoomId, messageInput, userId,
                 userList, typing, clientRef, phase, conn, tornDown, abandoned,
                 nextReq, lastSent, lastAppend, loaded>>

\* What createRoom's catch leaves of roomIds: the catch only logs.
RoomIdsAfterCatch_Added(ids) == Append(ids, Undefined)

RoomIdsAfterCatch(ids) == ids

\* createRoom's catch: the await rejected.
createRoom_rejected(q) ==
  /\ q \in pending /\ q.kind = "create"
  /\ roomIds' = RoomIdsAfterCatch(roomIds)
  /\ lastLog' = "Error creating room"
  /\ pending' = pending \ {q}
  /\ UNCHANGED <<nickname, selectedRoomId, messages, joinRoomId, messageInput,
                 userId, userList, typing>>
  /\ UNCHANGED <<clientRef, phase, conn, tornDown, abandoned,
                 nextReq, lastSent, joinedOk, recvSince, histSince,
                 lastAppend, loaded, serverNick>>

\* setMessages([]) of joinRoom: the list the call leaves before its await.
AfterJoinClear_Kept(msgs) == msgs

AfterJoinClear(msgs) == <<>>

\* joinRoom up to its await.
joinRoom(roomId) ==
  /\ phase = "mounted"
  /\ IF Truthy(roomId) /\ clientRef # Null /\ Truthy(nickname)
       THEN /\ nextReq < MaxReq
            /\ selectedRoomId' = roomId
            /\ messages' = AfterJoinClear(messages)
            /\ pending' =
                 (IF messages' = <<>> THEN ForgetPrior(pending) ELSE pending)
                   \cup {Request("join", roomId, Len(messages'), messages # <<>>)}
            /\ nextReq' = nextReq + 1
            /\ recvSince' = 0
            /\ histSince' = 0
            /\ loaded' = IF messages' = <<>> THEN {} ELSE loaded
            /\ UNCHANGED lastLog
       ELSE /\ lastLog' = "Nickname and Room ID are required to join a room."
            /\ UNCHANGED <<selectedRoomId, messages, pending, nextReq,
                           recvSince, histSince, loaded>>
  /\ UNCHANGED <<nickname, roomIds, joinRoomId, messageInput, userId, userList,
                 typing, clientRef, phase, conn, tornDown, abandoned, lastSent,
                 joinedOk, lastAppend, serverNick>>

\* joinRoom after its await resolved with resp, to the end of the function.
joinRoom_resolved(q, resp) ==
  /\ q \in pending /\ q.kind = "join"
  /\ conn[RefClient] = "Ready"
  /\ Len(messages) + Len(resp.items) <= MaxMsgs
  /\ CASE resp.shape = "noObject" ->
            \* oldMessages.messages throws; the catch logs
            /\ lastLog' = "Error joining room"
            /\ UNCHANGED <<messages, histSince, lastAppend, loaded>>
       [] IsArray(resp) ->
            /\ messages' = messages \o MapHistory(resp.items)
            /\ histSince' = histSince + Len(resp.items)
            /\ lastAppend' = [n |-> Len(resp.items), pre |-> q.pre,
                              hadPrior |-> q.hadPrior, quiet |-> q.quiet,
                              exact |-> (messages' = MapHistory(resp.items)),
                              done |-> TRUE, shape |-> resp.shape]
            /\ loaded' = IF resp.items # <<>> THEN loaded \cup {q.room}
                                              ELSE loaded
            /\ lastLog' = "<>"
       [] OTHER ->
            /\ lastLog' = "Expected an array of messages"
            /\ UNCHANGED <<messages, histSince, lastAppend, loaded>>
  /\ joinRoomId' = q.room
  /\ pending' = pending \ {q}
  /\ joinedOk' = joinedOk \cup {q.room}
  /\ serverNick' = q.nick
  /\ UNCHANGED <<nickname, roomIds, selectedRoomId, messageInput, userId,
                 userList, typing, clientRef, phase, conn, tornDown, abandoned,
                 nextReq, lastSent, recvSince>>

\* joinRoom's catch: the await rejected.
joinRoom_rejected(q) ==
  /\ q \in pending /\ q.kind = "join"
  /\ lastLog' = "Error joining room"
  /\ joinRoomId' = q.room
  /\ pending' = pending \ {q}
  /\ UNCHANGED <<nickname, roomIds, selectedRoomId, messages, messageInput,
                 userId, userList, typing, clientRef, phase, conn, tornDown,
                 abandoned, nextReq, lastSent, joinedOk, recvSince, histSince,
                 lastAppend, loaded, serverNick>>

\* A button of the created-rooms list: onClick={() => setSelectedRoomId(room)}
SelectRoom(i) ==
  /\ phase = "mounted"
  /\ i \in 1..Len(roomIds)
  /\ selectedRoomId' = roomIds[i]
  /\ recvSince' = IF IsSwitch(roomIds[i]) THEN 0 ELSE recvSince
  /\ histSince' = IF IsSwitch(roomIds[i]) THEN 0 ELSE histSince
  /\ UNCHANGED <<nickname, roomIds, messages, joinRoomId, messageInput, userId,
                 userList, typing, clientRef, phase, conn, tornDown, abandoned,
                 pending, nextReq, lastSent, lastLog, joinedOk, lastAppend, loaded, serverNick>>

\* The message input's onChange; the input is rendered only with a selected room.
ChangeInput(v) ==
  /\ phase = "mounted"
  /\ Truthy(selectedRoomId)
  /\ messageInput' = v
  /\ UNCHANGED <<nickname, roomIds, selectedRoomId, messages, joinRoomId,
                 userId, userList, typing, clientRef, phase, conn, tornDown,
                 abandoned, pending, nextReq, lastSent, lastLog, joinedOk,
                 recvSince, histSince, lastAppend, loaded, serverNick>>

\* Whether client.sendMessage throws.  The library is not in the repository:
\* over a socket that is not open the call may return or throw.
SendThrows == IF conn[RefClient] = "Ready" THEN {FALSE} ELSE BOOLEAN

\* handleSendMessage's early return.
SendRefused(setTypingPresence) ==
  \/ ~Truthy(nickname)
  \/ ~Truthy(selectedRoomId)
  \/ (~TruthyText(Trim(messageInput)) /\ ~setTypingPresence)

\* handleSendMessage(setTypingPresence)
handleSendMessage(setTypingPresence) ==
  /\ phase = "mounted"
  /\ IF SendRefused(setTypingPresence)
       THEN /\ lastLog' = "You must be in a room, have a nickname, and type a message to send."
            /\ UNCHANGED <<lastSent, messageInput, typing>>
       ELSE \E thrown \in SendThrows :
            /\ lastSent' =
                 IF clientRef # Null
                   THEN [type |-> IF setTypingPresence THEN "setTypingPresence"
                                                           ELSE "sendMessage",
                         body |-> IF setTypingPresence THEN <<>> ELSE messageInput,
                         isSystemMessage |-> setTypingPresence,
                         userIcon |-> Null,
                         connAt |-> conn[RefClient],
                         member |-> selectedRoomId \in joinedOk,
                         thrown |-> thrown]
                   ELSE lastSent
            /\ IF ~setTypingPresence /\ ~thrown
                 THEN messageInput' = <<>> /\ typing' = FALSE
                 ELSE UNCHANGED <<messageInput, typing>>
            /\ UNCHANGED lastLog
  /\ UNCHANGED <<nickname, roomIds, selectedRoomId, messages, joinRoomId,
                 userId, userList, clientRef, phase, conn, tornDown, abandoned,
                 pending, nextReq, joinedOk, recvSince, histSince, lastAppend, loaded, serverNick>>

\* Library contract (section 8, round trip): a chat event handed to the client
\* over a Ready connection, for a room the session is a member of, comes back
\* as a "sendMessage" notification with the same body, a timestamp, and the
\* nickname the session gave in the request that made it a member.
EchoTimestamps == {p.timestamp : p \in Payloads}

EchoOf(sent, ts) ==
  [body |-> sent.body, userNickname |-> serverNick,
   isSystemMessage |-> sent.isSystemMessage, timestamp |-> ts,
   userIcon |-> sent.userIcon]

Echo(ts) ==
  /\ lastSent.type = "sendMessage"
  /\ lastSent.connAt = "Ready"
  /\ ~lastSent.thrown
  /\ lastSent.member
  /\ onMessage("sendMessage", EchoOf(lastSent, ts), userId, userList)

\* ------------------------------------------------------------ specification
\* The steps of the program, by concern.
LifecycleStep ==
  \/ Mount
  \/ Unmount
  \/ SocketOpen(RefClient)
  \/ SocketClose(RefClient)

ModuleClientStep ==
  \/ SocketOpen(ModuleClient)
  \/ SocketClose(ModuleClient)

NicknameStep == \E p \in PromptNicknames : handleSetNickname(p)

CreateStep ==
  \/ createRoom
  \/ \E q \in pending, r \in CreatedIds : createRoom_resolved(q, r)
  \/ \E q \in pending : createRoom_rejected(q)

JoinStep(responses) ==
  \/ \E r \in JoinInputs : joinRoom(r)
  \/ \E q \in pending, resp \in responses : joinRoom_resolved(q, resp)
  \/ \E q \in pending : joinRoom_rejected(q)

SelectStep == \E i \in 1..MaxRooms : SelectRoom(i)

\* Chat messages are sent to the members of a room: they arrive once some
\* createRoom or joinRoom has completed.
ChatStep ==
  /\ joinedOk # {}
  /\ \E d \in Payloads : onMessage("sendMessage", d, "u1", <<>>)

SendStep ==
  \/ \E v \in InputTexts : ChangeInput(v)
  \/ \E tp \in BOOLEAN : handleSendMessage(tp)

\* Rooms and the message list: every step that writes selectedRoomId, roomIds
\* or messages.
Next ==
  \/ LifecycleStep
  \/ NicknameStep
  \/ CreateStep
  \/ JoinStep(JoinResponses)
  \/ SelectStep
  \/ ChatStep

Spec == Init /\ [][Next]_vars

\* Outbound events: every step that writes what handleSendMessage reads
\* (nickname, selectedRoomId, messageInput, the connection) and the handler.
NextSend ==
  \/ LifecycleStep
  \/ NicknameStep
  \/ CreateStep
  \/ JoinStep({ArrayResponse(<<>>)})
  \/ SelectStep
  \/ SendStep

SpecSend == Init /\ [][NextSend]_vars

\* Connections: both clients, and the requests in flight over the component's.
NextConn ==
  \/ LifecycleStep
  \/ ModuleClientStep
  \/ NicknameStep
  \/ CreateStep
  \/ JoinStep({ArrayResponse(<<>>)})

SpecConn == Init /\ [][NextConn]_vars

EchoStep == \E ts \in EchoTimestamps : Echo(ts)

\* The round trip of a chat message: the steps that lead to a message sent to
\* a joined room, and its echo.  The echoes are the only notifications, and
\* joinRoom is answered with an empty history, so the message list grows by
\* echoes only.
NextEcho ==
  \/ LifecycleStep
  \/ NicknameStep
  \/ JoinStep({ArrayResponse(<<>>)})
  \/ SendStep
  \/ EchoStep

SpecEcho == Init /\ [][NextEcho]_vars

\* Notifications that carry no chat message: a typing signal, and a kind the
\* switch of onMessage has no case for.
SignalStep ==
  \E type \in {"setTypingPresence", "ping"} :
    onMessage(type, Null, userId, userList)

\* A chat message from the user who was typing.
TypistStep ==
  /\ joinedOk # {}
  /\ onMessage("sendMessage", PBob, userId, userList)

\* The typing flag: every step that writes it (onMessage, handleSendMessage),
\* the other notifications, and the room switches of joinRoom.
NextTyping ==
  \/ LifecycleStep
  \/ NicknameStep
  \/ JoinStep({ArrayResponse(<<>>)})
  \/ SendStep
  \/ TypistStep
  \/ SignalStep

SpecTyping == Init /\ [][NextTyping]_vars

\* The user id the server assigned, and the users of the room.
PresenceStep ==
  \/ \E uid \in UserIds : onMessage("userId", Null, uid, userList)
  \/ \E ul \in UserLists : onMessage("userList", Null, userId, ul)

\* A notification of any kind of NotificationTypes.
NotifyStep ==
  \/ PresenceStep
  \/ ChatStep
  \/ SignalStep

\* The dispatch of onMessage: notifications of every kind, in sessions with
\* rooms created and selected.
NextDispatch ==
  \/ LifecycleStep
  \/ NicknameStep
  \/ CreateStep
  \/ NotifyStep

SpecDispatch == Init /\ [][NextDispatch]_vars

\* ------------------------------------------------------------------ claims

\* C1 (as claimed, for the room sessions in which joinRoom appended no
\* history): the length of the message list equals the number of "sendMessage"
\* notifications received since the selected room last changed.
C1_LengthIsNotificationsSinceSwitch ==
  histSince = 0 => Len(messages) = recvSince

\* C2: when joinRoom appends the history it was answered with, no entry of the
\* message list predates that joinRoom call: the call emptied the list before
\* its await, and the list is only appended to or emptied afterwards.
C2_JoinClearsBeforeHistory ==
  /\ lastAppend.done => lastAppend.pre = 0
  /\ \A q \in pending : q.kind = "join" => q.pre = 0

\* C2 witness: joinRoom was called while the list held entries, and its
\* non-empty history has been appended.
C2_Witness == lastAppend.done /\ lastAppend.hadPrior /\ lastAppend.n > 0

\* C3 (as claimed): when joinRoom resolves with a history H and no
\* "sendMessage" notification arrived between the call and its resolution, the
\* message list is exactly H mapped entry by entry.
C3_ListIsExactlyHistory ==
  (lastAppend.done /\ lastAppend.quiet) => lastAppend.exact

\* C4 (as claimed): handleSendMessage hands an event to the client only while
\* the connection is Ready, and no exception escapes it.
C4_SendOnlyWhenReady ==
  lastSent.type # "none" => (lastSent.connAt = "Ready" /\ ~lastSent.thrown)

\* C5 (as claimed): a chat event is emitted only while a createRoom or joinRoom
\* for the selected room has completed successfully.
C5_SendOnlyWhenJoined ==
  lastSent.type = "sendMessage" => lastSent.member

\* C6: the nickname is unset or a non-empty string; every request in flight
\* carries a non-empty nickname; and while the nickname is unset no request
\* has been issued, roomIds is empty and no room is selected.
C6_NoRoomWithoutNickname ==
  /\ nickname = Null \/ Truthy(nickname)
  /\ \A q \in pending \cup abandoned : Truthy(q.nick)
  /\ ~Truthy(nickname) =>
       (nextReq = 0 /\ pending = {} /\ roomIds = <<>> /\ selectedRoomId = Null)

\* C6 witness: createRoom has been called with the nickname unset and took its
\* else branch.
C6_Witness ==
  /\ lastLog = "Nickname and client are required to create a room."
  /\ clientRef # Null
  /\ ~Truthy(nickname)

\* C7: after the component has unmounted (teardown has run) no step changes
\* roomIds, the selected room, the message list or any other state of the
\* component, and no request is left in flight.
C7_NothingAfterTeardown ==
  [][phase = "unmounted" => (appState' = appState /\ pending' = {})]_vars

\* C7 witness: teardown ran with a joinRoom and a createRoom request in flight.
C7_Witness ==
  /\ phase = "unmounted"
  /\ \E q \in abandoned : q.kind = "join"
  /\ \E q \in abandoned : q.kind = "create"

\* C8 (as claimed): at most one TelepartyClient has been constructed and not
\* torn down.
C8_AtMostOneActiveConnection ==
  Cardinality({c \in Clients : conn[c] # "Unbuilt" /\ c \notin tornDown}) <= 1

\* The connection's transitions: Disconnected -> Connecting -> Ready -> Closed,
\* and Connecting -> Closed for an attempt that fails.
ConnTransitions ==
  {<<"Unbuilt", "Connecting">>, <<"Connecting", "Ready">>,
   <<"Connecting", "Closed">>, <<"Ready", "Closed">>}

\* C9: every connection moves only along Disconnected -> Connecting -> Ready ->
\* Closed; Closed is terminal, so after a closed notification or teardown no
\* connection returns to Connecting or Ready.
C9_ClosedIsTerminal ==
  [][\A c \in Clients :
       \/ conn'[c] = conn[c]
       \/ <<conn[c], conn'[c]>> \in ConnTransitions]_vars

\* C9 witness: the component's connection was Ready, has received its closed
\* notification, and the component is still mounted with a request in flight.
C9_Witness ==
  /\ phase = "mounted"
  /\ conn[RefClient] = "Closed"
  /\ lastLog = "Socket has been closed"
  /\ conn[ModuleClient] = "Connecting"
  /\ pending # {}

C11_ClearedOnSwitch ==
  [][selectedRoomId' # selectedRoomId => messages' = <<>>]_vars

\* The joinRoom requests in flight.
JoinsInFlight == {q \in pending : q.kind = "join"}

\* C12 (as claimed): at most one joinRoom request is in flight, and the
\* message list holds joinRoom history of the selected room only, never the
\* histories of two different rooms together.
C12_OneJoinOneRoom ==
  /\ Cardinality(JoinsInFlight) <= 1
  /\ loaded \subseteq {selectedRoomId}

\* A step in which the continuation of the request q ran: q leaves the
\* requests in flight while the component stays mounted.
Settled(q, kind) ==
  /\ q \in pending
  /\ q.kind = kind
  /\ pending' = pending \ {q}
  /\ phase' = phase

\* C13: when the continuation of a createRoom request runs, either the request
\* failed, the error is logged and roomIds, the selected room and the message
\* list are unchanged, or it succeeded, and the returned id is appended to the
\* end of roomIds and selected.  createRoom_rejected is createRoom's catch, so
\* no exception leaves createRoom.
C13_FailedCreateIsNoOp ==
  [][\A q \in pending : Settled(q, "create") =>
       \/ /\ lastLog' = "Error creating room"
          /\ UNCHANGED <<roomIds, selectedRoomId, messages>>
       \/ /\ lastLog' = "Created room with ID"
          /\ \E r \in CreatedIds :
               roomIds' = Append(roomIds, r) /\ selectedRoomId' = r]_vars

\* C13 witness: a createRoom request has failed while a room was selected and
\* the message list held entries; roomIds is still empty.
C13_Witness ==
  /\ lastLog = "Error creating room"
  /\ messages # <<>>
  /\ Truthy(selectedRoomId)
  /\ roomIds = <<>>

\* C14 (as claimed): when the continuation of a joinRoom request runs its
\* catch, the selected room is the room that was selected when joinRoom was
\* called, and a message list that held entries then still holds entries.
C14_FailedJoinIsNoOp ==
  [][\A q \in pending :
       (Settled(q, "join") /\ lastLog' = "Error joining room") =>
         /\ selectedRoomId' = q.sel
         /\ q.hadPrior => messages' # <<>>]_vars

\* C15: under SpecEcho, the echo of the message the local user sent last is
\* appended at the end of the message list with the body that was sent, with
\* the nickname set through handleSetNickname, and with a time that is
\* toLocaleString of the echo's timestamp.
C15_EchoRoundTrip ==
  [][Len(messages') = Len(messages) + 1 =>
       LET m == messages'[Len(messages')] IN
         /\ SubSeq(messages', 1, Len(messages)) = messages
         /\ m.message = lastSent.body
         /\ m.nickname = nickname
         /\ m.time = ToLocaleString(m.timestamp)
         /\ m.timestamp \in EchoTimestamps]_vars

\* C15 witness: "hello" was sent as "alice" and its echo is the last entry of
\* the message list.
C15_Witness ==
  /\ lastSent.type = "sendMessage"
  /\ recvSince > 0
  /\ messages # <<>>
  /\ messages[Len(messages)].message = <<"h", "e", "l", "l", "o">>
  /\ messages[Len(messages)].nickname = "alice"

\* A step of onMessage for a notification of the type, whatever it carries.
Received(type) ==
  \E d \in Payloads, uid \in UserIds, ul \in UserLists :
    onMessage(type, d, uid, ul)

\* A step of handleSendMessage() past its early return, in which
\* client.sendMessage returned.
SentChat ==
  /\ handleSendMessage(FALSE)
  /\ ~SendRefused(FALSE)
  /\ ~lastSent'.thrown

\* C16: a "setTypingPresence" notification sets the typing flag, and only it
\* does; once set the flag stays set through every step (notifications of
\* every kind, room switches, outbound typing signals) except the one in which
\* the local user sends a chat message, which also empties the message input.
C16_TypingIsSticky ==
  [][/\ Received("setTypingPresence") => typing'
     /\ (~typing /\ typing') => Received("setTypingPresence")
     /\ (typing /\ ~typing') => SentChat
     /\ SentChat => (~typing' /\ messageInput' = <<>>)]_vars

\* C16 witness: the flag is set in a room session in which a chat message has
\* been received, the local user has sent a typing signal, and joinRoom has
\* been called for two different rooms.
C16_Witness ==
  /\ typing
  /\ recvSince > 0
  /\ lastSent.type = "setTypingPresence"
  /\ Truthy(joinRoomId)
  /\ selectedRoomId # joinRoomId

\* C17: when joinRoom is answered with an object whose messages field is not
\* a list, the continuation reports "Expected an array of messages", leaves
\* the message list as it was and runs to its end (it sets joinRoomId); and
\* history is only ever appended from a response whose messages field is a
\* list.
C17_MalformedAppendsNothing ==
  [][/\ \A q \in pending :
          (Settled(q, "join") /\ lastLog' = "Expected an array of messages") =>
            (messages' = messages /\ joinRoomId' = q.room)
     /\ lastAppend' # lastAppend => lastAppend'.shape = "array"]_vars

\* C17 witness: the mismatch was reported for the selected room while the
\* message list held an entry received after joinRoom's clear.
C17_Witness ==
  /\ lastLog = "Expected an array of messages"
  /\ joinRoomId = selectedRoomId
  /\ messages # <<>>
  /\ recvSince = Len(messages)

\* The kinds the switch of onMessage has a case for.
RecognizedTypes == {"userId", "userList", "sendMessage", "setTypingPresence"}

\* C18: a notification of a kind onMessage has no case for is logged as
\* unhandled and changes no state of the component; a "userId" notification
\* changes userId only, to the id it carries; a "userList" notification
\* changes the user list only, to the list it carries; a "sendMessage"
\* notification only appends one entry to the message list; a
\* "setTypingPresence" notification only sets the typing flag.
C18_DispatchFrame ==
  [][/\ \A type \in NotificationTypes \ RecognizedTypes :
          Received(type) =>
            (appState' = appState /\ lastLog' = "Unhandled message type")
     /\ \A uid \in UserIds :
          onMessage("userId", PBob, uid, userList) =>
            /\ userId' = uid
            /\ UNCHANGED <<nickname, roomIds, selectedRoomId, messages,
                           joinRoomId, messageInput, userList, typing>>
     /\ \A ul \in UserLists :
          onMessage("userList", PBob, userId, ul) =>
            /\ userList' = ul
            /\ UNCHANGED <<nickname, roomIds, selectedRoomId, messages,
                           joinRoomId, messageInput, userId, typing>>
     /\ Received("sendMessage") =>
          /\ Len(messages') = Len(messages) + 1
          /\ SubSeq(messages', 1, Len(messages)) = messages
          /\ UNCHANGED <<nickname, roomIds, selectedRoomId, joinRoomId,
                         messageInput, userId, userList, typing>>
     /\ Received("setTypingPresence") =>
          /\ typing'
          /\ UNCHANGED <<nickname, roomIds, selectedRoomId, messages,
                         joinRoomId, messageInput, userId, userList>>]_vars

\* C18 witness: a notification of an unknown kind was the last one, received
\* when every piece of the session state had been set.
C18_Witness ==
  /\ lastLog = "Unhandled message type"
  /\ userId = "u2"
  /\ Len(userList) = 2
  /\ messages # <<>>
  /\ typing
  /\ roomIds # <<>>
  /\ Truthy(selectedRoomId)

====
